---- MODULE Spec2Model ----
(***************************************************************************)
(* Model of serverless/examples/step_function_sam_app/hello_world_python/  *)
(* app.py: lambda_handler(event, context).                                 *)
(*                                                                         *)
(* One invocation is a straight line of statements; every statement that   *)
(* calls out of the handler (tracer.trace, print, time.sleep, the span's   *)
(* __exit__, json.dumps) either completes or raises.  The handler has no   *)
(* try/except, so a raise leaves the enclosing `with` block through the    *)
(* span's __exit__ and then leaves the handler.  The hosting platform      *)
(* invokes the handler again once an invocation has ended.                 *)
(*                                                                         *)
(* Strings that are serialized are sequences of one-character strings, so  *)
(* that json.dumps is modelled by the characters it produces.              *)
(***************************************************************************)
EXTENDS Integers, Sequences, FiniteSets, TLC

VARIABLES
    event,      \* the event argument of the invocation in progress
    context,    \* the context argument of the invocation in progress
    event0,     \* the event as the platform passed it (snapshot at the call)
    context0,   \* the context as the platform passed it
    accessed,   \* the fields of event/context the handler has read
    pc,         \* the statement the handler is at
    raised,     \* the statements that raised, in order
    failure,    \* the exception that left the handler: "none" or its statement
    open,       \* the spans the tracer holds open, innermost last
    effects,    \* the observable effects of this invocation, in order
    attempts,   \* how many times each statement was executed
    elapsed,    \* wall-clock ticks since the handler was entered
    response,   \* <<>> until the handler returns, then <<the returned dict>>
    completed   \* (event, context, response) of the invocations that returned

vars == <<event, context, event0, context0, accessed, pc, raised, failure,
          open, effects, attempts, elapsed, response, completed>>

----------------------------------------------------------------------------
(* Bounds of the model *)

\* clock resolution: ticks per second
TicksPerSecond == 2
\* the most ticks a statement other than time.sleep may take
MaxStepTicks == 1
\* the most ticks time.sleep may oversleep
MaxOversleep == 1

----------------------------------------------------------------------------
(* Literals of the handler *)

\* app.py:28
HelloWorldSpan == "hello.world"
\* app.py:29
LogLine == "Hello, World!"
\* app.py:31
SleepSpan == "sleep"
\* app.py:32
SleepSeconds == 1
\* app.py:35
StatusCode == 200
\* app.py:37, the key
MessageKey == <<"m","e","s","s","a","g","e">>
\* the log line's wording used for the message
Message_logline == <<"H","e","l","l","o",","," ","W","o","r","l","d","!">>
\* app.py:37, the value
Message == <<"H","e","l","l","o"," ","w","o","r","l","d","!">>
\* app.py:36-38, the dict handed to json.dumps, as its (key, value) items
BodyDict == << <<MessageKey, Message>> >>

----------------------------------------------------------------------------
(* json.dumps of a dict of str -> str, with the default separators *)

RECURSIVE Concat(_)
Concat(ss) == IF ss = <<>> THEN <<>> ELSE Head(ss) \o Concat(Tail(ss))

EscapeChar(c) ==
    IF c = "\"" THEN <<"\\", "\"">>
    ELSE IF c = "\\" THEN <<"\\", "\\">>
    ELSE <<c>>

encode_str(s) ==
    <<"\"">> \o Concat([i \in 1..Len(s) |-> EscapeChar(s[i])]) \o <<"\"">>

encode_item(kv) == encode_str(kv[1]) \o <<":", " ">> \o encode_str(kv[2])

json_dumps(d) ==
    <<"{">>
    \o Concat([i \in 1..Len(d) |->
                 IF i = 1 THEN encode_item(d[i])
                 ELSE <<",", " ">> \o encode_item(d[i])])
    \o <<"}">>

\* a handler that rejects an event that is no dict
MakeResponse_validating(ev, ctx) ==
    [statusCode |-> IF ev.tag = "dict" THEN StatusCode ELSE 400,
     body |-> json_dumps(BodyDict)]

\* a handler that echoes the event's "message" field when there is one
MakeResponse_echo(ev, ctx) ==
    [statusCode |-> StatusCode,
     body |-> json_dumps(<< <<MessageKey,
                               IF <<"message", "bye">> \in ev.items
                               THEN <<"b","y","e">>
                               ELSE Message>> >>)]

\* app.py:34-39, the returned dict
MakeResponse(ev, ctx) ==
    [statusCode |-> StatusCode, body |-> json_dumps(BodyDict)]

----------------------------------------------------------------------------
(* Inputs the platform may pass *)

NoneValue == [tag |-> "none", items |-> {}]
EmptyEvent == [tag |-> "dict", items |-> {}]
ExtraFieldsEvent ==
    [tag |-> "dict", items |-> {<<"path", "/hello">>, <<"message", "bye">>}]
LambdaContext == [tag |-> "object", items |-> {<<"aws_request_id", "r-1">>}]

Events == {EmptyEvent, ExtraFieldsEvent, NoneValue}
Contexts == {NoneValue, LambdaContext}

----------------------------------------------------------------------------
(* The statements of the handler, in program order *)

Steps == <<"trace_hw", "print", "exit_hw", "trace_sleep", "sleep",
           "exit_sleep", "return">>
StepSet == {Steps[i] : i \in 1..Len(Steps)}
Order(s) == CHOOSE i \in 1..Len(Steps) : Steps[i] = s

\* a return statement that reads event["body"]
InputsRead_body(s) == IF s = "return" THEN {"body"} ELSE {}

\* the fields of event and context a statement reads: none anywhere
InputsRead(s) == {}

\* the argument of time.sleep taken in clock ticks instead of seconds
SleepTicks_unscaled == SleepSeconds

SleepTicks == SleepSeconds * TicksPerSecond

NoAttempts == [s \in StepSet |-> 0]

Effect(kind, name, secs) ==
    [kind |-> kind, name |-> name, secs |-> secs, open |-> open]

Init ==
    /\ event = NoneValue
    /\ context = NoneValue
    /\ event0 = NoneValue
    /\ context0 = NoneValue
    /\ accessed = {}
    /\ pc = "idle"
    /\ raised = <<>>
    /\ failure = "none"
    /\ open = <<>>
    /\ effects = <<>>
    /\ attempts = NoAttempts
    /\ elapsed = 0
    /\ response = <<>>
    /\ completed = {}

\* the platform calls lambda_handler(e, c)
Invoke ==
    /\ pc = "idle"
    /\ \E e \in Events, c \in Contexts :
         /\ event' = e
         /\ context' = c
         /\ event0' = e
         /\ context0' = c
    /\ pc' = "trace_hw"
    /\ UNCHANGED <<accessed, raised, failure, open, effects, attempts,
                   elapsed, response, completed>>

\* what every statement s of the handler does besides its own effect
Ran(s, d) ==
    /\ attempts' = [attempts EXCEPT ![s] = @ + 1]
    /\ elapsed' = elapsed + d
    /\ accessed' = accessed \cup InputsRead(s)
    /\ UNCHANGED <<event, context, event0, context0, completed>>

\* an exception leaves the handler
Propagate(s) ==
    /\ pc' = "failed"
    /\ failure' = s
    /\ raised' = Append(raised, s)

\* `with tracer.trace(name):` on entry: the span is opened, or trace raises
EnterSpan(s, name, next) ==
    /\ pc = s
    /\ \E d \in 0..MaxStepTicks :
         /\ Ran(s, d)
         /\ \/ /\ open' = Append(open, name)
               /\ effects' = Append(effects, Effect("open", name, 0))
               /\ pc' = next
               /\ UNCHANGED <<raised, failure>>
            \/ /\ Propagate(s)
               /\ UNCHANGED <<open, effects>>
    /\ UNCHANGED response

\* a span finished by hand after the body, without with/finally: a raise in
\* the body skips the finish
ExitSpan_leak(s, name, next) ==
    /\ pc = s
    /\ \E d \in 0..MaxStepTicks :
         /\ Ran(s, d)
         /\ IF raised = <<>>
            THEN /\ open' = SubSeq(open, 1, Len(open) - 1)
                 /\ effects' = Append(effects, Effect("close", name, 0))
                 /\ pc' = next
                 /\ UNCHANGED <<raised, failure>>
            ELSE /\ pc' = "failed"
                 /\ failure' = raised[Len(raised)]
                 /\ UNCHANGED <<raised, open, effects>>
    /\ UNCHANGED response

\* a with block that suppresses the exception of its body
ExitSpan_suppress(s, name, next) ==
    /\ pc = s
    /\ \E d \in 0..MaxStepTicks :
         /\ Ran(s, d)
         /\ open' = SubSeq(open, 1, Len(open) - 1)
         /\ effects' = Append(effects, Effect("close", name, 0))
         /\ pc' = next
         /\ UNCHANGED <<raised, failure>>
    /\ UNCHANGED response

\* leaving the `with` block: __exit__ runs whether or not the body raised,
\* and does not suppress the body's exception
ExitSpan(s, name, next) ==
    /\ pc = s
    /\ \E d \in 0..MaxStepTicks :
         /\ Ran(s, d)
         /\ \/ /\ open' = SubSeq(open, 1, Len(open) - 1)
               /\ effects' = Append(effects, Effect("close", name, 0))
               /\ IF raised = <<>>
                  THEN /\ pc' = next
                       /\ UNCHANGED <<raised, failure>>
                  ELSE /\ pc' = "failed"
                       /\ failure' = raised[Len(raised)]
                       /\ UNCHANGED raised
            \/ /\ Propagate(s)
               /\ \/ /\ open' = SubSeq(open, 1, Len(open) - 1)
                     /\ effects' = Append(effects, Effect("close", name, 0))
                  \/ UNCHANGED <<open, effects>>
    /\ UNCHANGED response

\* app.py:28
TraceHelloWorld == EnterSpan("trace_hw", HelloWorldSpan, "print")

\* the second with block nested in the first
PrintHello_nested ==
    /\ pc = "print"
    /\ \E d \in 0..MaxStepTicks :
         /\ Ran("print", d)
         /\ effects' = Append(effects, Effect("log", LogLine, 0))
    /\ pc' = "trace_sleep"
    /\ UNCHANGED <<raised, failure, open, response>>

\* the print statement duplicated
PrintHello_twice ==
    /\ pc = "print"
    /\ \E d \in 0..MaxStepTicks :
         /\ Ran("print", d)
         /\ effects' = effects \o <<Effect("log", LogLine, 0),
                                    Effect("log", LogLine, 0)>>
    /\ pc' = "exit_hw"
    /\ UNCHANGED <<raised, failure, open, response>>

\* app.py:29
PrintHello ==
    /\ pc = "print"
    /\ \E d \in 0..MaxStepTicks :
         /\ Ran("print", d)
         /\ \/ /\ effects' = Append(effects, Effect("log", LogLine, 0))
               /\ UNCHANGED raised
            \/ /\ raised' = Append(raised, "print")
               /\ UNCHANGED effects
    /\ pc' = "exit_hw"
    /\ UNCHANGED <<failure, open, response>>

\* app.py:28-29, the end of the first with block
ExitHelloWorld == ExitSpan("exit_hw", HelloWorldSpan, "trace_sleep")

\* app.py:31
TraceSleep == EnterSpan("trace_sleep", SleepSpan, "sleep")

\* the return statement indented into the second with block
Sleep_returnInside ==
    /\ pc = "sleep"
    /\ \E d \in SleepTicks..(SleepTicks + MaxOversleep) :
         /\ Ran("sleep", d)
         /\ effects' = Append(effects, Effect("delay", "", SleepSeconds))
    /\ pc' = "return"
    /\ UNCHANGED <<raised, failure, open, response>>

\* app.py:32
Sleep ==
    /\ pc = "sleep"
    /\ \/ \E d \in SleepTicks..(SleepTicks + MaxOversleep) :
            /\ Ran("sleep", d)
            /\ effects' = Append(effects, Effect("delay", "", SleepSeconds))
            /\ UNCHANGED raised
       \/ \E d \in 0..SleepTicks :
            /\ Ran("sleep", d)
            /\ raised' = Append(raised, "sleep")
            /\ UNCHANGED effects
    /\ pc' = "exit_sleep"
    /\ UNCHANGED <<failure, open, response>>

\* app.py:31-32, the end of the second with block
ExitSleep == ExitSpan("exit_sleep", SleepSpan, "return")

\* app.py:34-39
ReturnResponse ==
    /\ pc = "return"
    /\ \E d \in 0..MaxStepTicks :
         /\ Ran("return", d)
         /\ \/ /\ response' = <<MakeResponse(event, context)>>
               /\ pc' = "returned"
               /\ UNCHANGED <<raised, failure>>
            \/ /\ Propagate("return")
               /\ UNCHANGED response
    /\ UNCHANGED <<open, effects>>

\* the platform takes the outcome; the next invocation starts afresh
Complete ==
    /\ pc \in {"returned", "failed"}
    /\ completed' =
         IF pc = "returned"
         THEN completed \cup
              {[event |-> event0, context |-> context0, response |-> response[1]]}
         ELSE completed
    /\ event' = NoneValue
    /\ context' = NoneValue
    /\ event0' = NoneValue
    /\ context0' = NoneValue
    /\ accessed' = {}
    /\ pc' = "idle"
    /\ raised' = <<>>
    /\ failure' = "none"
    /\ open' = <<>>
    /\ effects' = <<>>
    /\ attempts' = NoAttempts
    /\ elapsed' = 0
    /\ response' = <<>>

Next ==
    \/ Invoke
    \/ TraceHelloWorld
    \/ PrintHello
    \/ ExitHelloWorld
    \/ TraceSleep
    \/ Sleep
    \/ ExitSleep
    \/ ReturnResponse
    \/ Complete

Spec == Init /\ [][Next]_vars

----------------------------------------------------------------------------
(* JSON decoding of an object of strings, used to read the response body *)

BadStr == [ok |-> FALSE, val |-> <<>>, next |-> 0]
BadObj == [ok |-> FALSE, items |-> <<>>]

RECURSIVE SkipWs(_, _)
SkipWs(s, i) == IF i <= Len(s) /\ s[i] = " " THEN SkipWs(s, i + 1) ELSE i

\* the string whose opening quote precedes position i
RECURSIVE ScanStr(_, _, _)
ScanStr(s, i, acc) ==
    IF i > Len(s) THEN BadStr
    ELSE IF s[i] = "\"" THEN [ok |-> TRUE, val |-> acc, next |-> i + 1]
    ELSE IF s[i] = "\\"
         THEN IF i + 1 > Len(s) \/ s[i + 1] \notin {"\"", "\\"}
              THEN BadStr
              ELSE ScanStr(s, i + 2, Append(acc, s[i + 1]))
    ELSE ScanStr(s, i + 1, Append(acc, s[i]))

ParseStr(s, i) ==
    IF i <= Len(s) /\ s[i] = "\"" THEN ScanStr(s, i + 1, <<>>) ELSE BadStr

RECURSIVE ParseMembers(_, _, _)
ParseMembers(s, i, acc) ==
    LET k == ParseStr(s, i)
        c == SkipWs(s, k.next)
        v == IF k.ok /\ c <= Len(s) /\ s[c] = ":"
             THEN ParseStr(s, SkipWs(s, c + 1))
             ELSE BadStr
        e == SkipWs(s, v.next)
        acc2 == Append(acc, <<k.val, v.val>>)
    IN  IF ~v.ok \/ e > Len(s) THEN BadObj
        ELSE IF s[e] = "}"
             THEN IF SkipWs(s, e + 1) = Len(s) + 1
                  THEN [ok |-> TRUE, items |-> acc2]
                  ELSE BadObj
        ELSE IF s[e] = "," THEN ParseMembers(s, SkipWs(s, e + 1), acc2)
        ELSE BadObj

json_loads(s) ==
    LET i == SkipWs(s, 1)
        j == SkipWs(s, i + 1)
    IN  IF i > Len(s) \/ s[i] # "{" THEN BadObj
        ELSE IF j <= Len(s) /\ s[j] = "}"
             THEN IF SkipWs(s, j + 1) = Len(s) + 1
                  THEN [ok |-> TRUE, items |-> <<>>]
                  ELSE BadObj
        ELSE ParseMembers(s, j, <<>>)

\* the body the specification writes out: {"message": "Hello world!"}
ExpectedBody == <<"{","\"","m","e","s","s","a","g","e","\"",":"," ","\"","H","e","l","l","o"," ","w","o","r","l","d","!","\"","}">>

\* the responses returned so far, the one just returned included
Returned ==
    {r.response : r \in completed}
    \cup (IF pc = "returned" THEN {response[1]} ELSE {})

SpanEffect(e) == e.kind \in {"open", "close"}
LogEffect(e) == e.kind = "log"
DelayEffect(e) == e.kind = "delay"
KindName(es) == [i \in 1..Len(es) |-> <<es[i].kind, es[i].name>>]

----------------------------------------------------------------------------
(* Claims *)

\* C1: every invocation that returns, whatever its event and context,
\* returns a response whose statusCode is 200.
C1_StatusCode200 == \A r \in Returned : r.statusCode = 200

C1_Witness ==
    /\ pc = "returned"
    /\ event0 = NoneValue
    /\ context0 = NoneValue

\* C2: the body of every returned response decodes to an object with the
\* single key "message" whose value is "Hello world!"; for the empty event
\* and the None context the response is statusCode 200 with the body
\* {"message": "Hello world!"} and has no other field.
C2_BodyIsHelloWorld ==
    /\ \A r \in Returned :
         LET o == json_loads(r.body)
         IN  /\ o.ok
             /\ Len(o.items) = 1
             /\ o.items[1][1] = <<"m","e","s","s","a","g","e">>
             /\ o.items[1][2] = <<"H","e","l","l","o"," ","w","o","r","l","d","!">>
    /\ (pc = "returned" /\ event0 = EmptyEvent /\ context0 = NoneValue)
         => /\ DOMAIN response[1] = {"statusCode", "body"}
            /\ response[1].statusCode = 200
            /\ response[1].body = ExpectedBody

C2_Witness ==
    /\ pc = "returned"
    /\ event0 = EmptyEvent
    /\ context0 = NoneValue
    /\ response # <<>>

\* C3: at most one span is open at any time, every span is closed while it
\* is the only open one, and an invocation that returns has opened exactly
\* "hello.world" and then "sleep", the first closed before the second opens.
C3_TwoSpansInOrder ==
    /\ Len(open) <= 1
    /\ \A i \in 1..Len(effects) :
         /\ effects[i].kind = "open" => effects[i].open = <<>>
         /\ effects[i].kind = "close" => effects[i].open = <<effects[i].name>>
    /\ pc = "returned" =>
         KindName(SelectSeq(effects, SpanEffect))
           = << <<"open", "hello.world">>, <<"close", "hello.world">>,
                <<"open", "sleep">>, <<"close", "sleep">> >>

C3_Witness ==
    /\ pc = "returned"
    /\ Len(SelectSeq(effects, SpanEffect)) = 4
    /\ open = <<>>

\* C4: all returned responses are the same response, whatever the event
\* and the context of the invocation.
C4_ResponseIndependentOfInputs ==
    \A a \in Returned : \A b \in Returned : a = b

C4_Witness ==
    \E a \in completed : \E b \in completed :
        /\ a.event = EmptyEvent
        /\ b.event = ExtraFieldsEvent
        /\ a.context # b.context
        /\ a.response = b.response

\* C5: an invocation that returns has run for at least one second, and its
\* one-second delay has completed.
C5_AtLeastOneSecond ==
    pc = "returned" =>
        /\ elapsed >= 1 * TicksPerSecond
        /\ \E i \in 1..Len(effects) :
             effects[i].kind = "delay" /\ effects[i].secs = 1

C5_Witness ==
    /\ pc = "returned"
    /\ elapsed = TicksPerSecond

\* C6: when the handler has exited by returning, or because the print or
\* the sleep raised, no span is open.
C6_SpansClosedOnExit ==
    (pc \in {"returned", "failed"} /\ failure \in {"none", "print", "sleep"})
        => open = <<>>

C6_Witness ==
    /\ pc = "failed"
    /\ failure = "print"
    /\ Len(effects) = 2
    /\ effects[2].kind = "close"

\* C7: no statement runs twice; once a statement has raised no response is
\* returned, the handler only leaves the enclosing with block and ends
\* failed with the exception raised last, and no statement after that block
\* runs.
BlockEnd(s) ==
    IF s = "print" THEN "exit_hw" ELSE IF s = "sleep" THEN "exit_sleep" ELSE s

C7_FailurePropagates ==
    /\ \A s \in StepSet : attempts[s] <= 1
    /\ pc = "returned" => raised = <<>> /\ failure = "none"
    /\ raised # <<>> =>
         /\ response = <<>>
         /\ pc \in {"exit_hw", "exit_sleep", "failed"}
         /\ pc # "failed" => pc = BlockEnd(raised[1]) /\ Len(raised) = 1
         /\ \A s \in StepSet :
              Order(s) > Order(BlockEnd(raised[1])) => attempts[s] = 0
    /\ pc = "failed" =>
         /\ raised # <<>>
         /\ failure = raised[Len(raised)]

C7_Witness ==
    /\ pc = "failed"
    /\ raised = <<"sleep">>
    /\ failure = "sleep"

\* C8: an invocation that returns has printed "Hello, World!" exactly once,
\* with "hello.world" the only open span, and has slept one second exactly
\* once, with "sleep" the only open span.
C8_OneLogOneDelay ==
    pc = "returned" =>
        LET logs == SelectSeq(effects, LogEffect)
            delays == SelectSeq(effects, DelayEffect)
        IN  /\ Len(logs) = 1
            /\ logs[1].name = "Hello, World!"
            /\ logs[1].open = <<"hello.world">>
            /\ Len(delays) = 1
            /\ delays[1].secs = 1
            /\ delays[1].open = <<"sleep">>

C8_Witness ==
    /\ pc = "returned"
    /\ Len(SelectSeq(effects, LogEffect)) = 1
    /\ Len(SelectSeq(effects, DelayEffect)) = 1

\* C9: throughout an invocation and after it, returned or failed, the event
\* and the context are the values the platform passed and no field of
\* either has been read.
C9_InputsUntouched ==
    /\ event = event0
    /\ context = context0
    /\ accessed = {}

C9_Witness ==
    /\ pc = "failed"
    /\ failure = "exit_sleep"
    /\ event0 = ExtraFieldsEvent
    /\ context0 = LambdaContext

\* C10: the return statement runs only with both spans closed, so a failure
\* of the serialization finds no span open; and when the "hello.world" block
\* fails, the "sleep" span is never opened and the delay never starts.
C10_ReturnAfterSpans ==
    /\ attempts["return"] > 0 =>
         /\ open = <<>>
         /\ KindName(SelectSeq(effects, SpanEffect))
              = << <<"open", "hello.world">>, <<"close", "hello.world">>,
                   <<"open", "sleep">>, <<"close", "sleep">> >>
    /\ (raised # <<>> /\ raised[1] \in {"trace_hw", "print", "exit_hw"}) =>
         /\ attempts["trace_sleep"] = 0
         /\ attempts["sleep"] = 0
         /\ \A i \in 1..Len(effects) :
              effects[i].name # "sleep" /\ effects[i].kind # "delay"

C10_Witness ==
    /\ pc = "failed"
    /\ failure = "return"
    /\ open = <<>>

====
